---- MODULE Spec2Model ----
(***************************************************************************)
(* Model of the validation engine of bitcoin-analysis                      *)
(* (src/bitcoin-analysis/data_validator.py, class DataValidator).          *)
(*                                                                         *)
(* The three dataframes are sequences of rows.  Amounts are counted in     *)
(* whole coins (1 coin = 100,000,000 satoshi), so that MINING_REWARD, the  *)
(* 5,000,000,000 satoshi of the source, is 50: every comparison of the     *)
(* source is between sums of amounts and is unchanged by the unit.         *)
(***************************************************************************)
EXTENDS Integers, Sequences, FiniteSets, TLC

\* ------------------------------------------------------------------ bounds
NTx == 2          \* transaction ids are 1..NTx
MaxIn == 3        \* input rows of the ledger
MaxOut == 2       \* output rows of the ledger, with ids 1..MaxOut

\* --------------------------------------------------------------- constants
\* MINING_REWARD = 5_000_000_000 satoshi, that is 50 coins
MINING_REWARD == 50
NoOutput == -1    \* out_id of a coinbase input
NonStandard == -1 \* pk_id of a non-standard script

\* The values the columns of the relations take.  sig_id 0 is the coinbase
\* signer; pk_id -1 is a non-standard script, 0 an invalid key; amounts are
\* negative, below the reward, the reward, and above it.
TxIds == 1..NTx
OutIds == 1..MaxOut
SigIds == {0, 1}
PkIds == {-1, 0, 1}
Values == {-1, 20, 50, 70}

VARIABLES
    tx_df, in_df, out_df,       \* instance attributes: the three relations
    n_invalid,                  \* instance attribute once incremented
    utxo,                       \* class attributes, shared by all instances
    not_in_utxo, neg_dest_pk, invalid_pk,
    neg_output, not_enough_value, invalid_coinbase,
    pc,                         \* position in validate_data
    coinbase_outputs, cb_i,     \* the pre-pass loop and its position
    tx_iter, tx_i,              \* the main loop and its position
    files,                      \* what write_out stored
    ledger,                     \* the relations handed to the constructor
    trace,                      \* the verdicts of this run, in order
    run, first                  \* instance number, and the first one's files

vars == <<tx_df, in_df, out_df, n_invalid, utxo, not_in_utxo, neg_dest_pk,
          invalid_pk, neg_output, not_enough_value, invalid_coinbase, pc,
          coinbase_outputs, cb_i, tx_iter, tx_i, files, ledger, trace,
          run, first>>

\* ----------------------------------------------------------------- helpers
RECURSIVE SumSeq(_)
SumSeq(s) == IF s = <<>> THEN 0 ELSE Head(s) + SumSeq(Tail(s))

Range(s) == {s[k] : k \in DOMAIN s}

\* rows['value']
ValuesOf(rows) == [k \in DOMAIN rows |-> rows[k].value]

\* df[df['tx_id'] == tx_id]
RowsOf(df, tx_id) == SelectSeq(df, LAMBDA r : r.tx_id = tx_id)

\* self.out_df[self.out_df['id'] == out_id]
OutputsWithId(df, out_id) == SelectSeq(df, LAMBDA r : r.id = out_id)

\* ------------------------------------------------------------ the ledgers
SeqsUpTo(S, n) == UNION {[1..k -> S] : k \in 0..n}

Perms(S) == {p \in [1..Cardinality(S) -> S] : \A a, b \in DOMAIN p : a # b => p[a] # p[b]}

Grouped(rows) == \A a, b \in DOMAIN rows : a < b => rows[a].tx_id <= rows[b].tx_id

\* The Transactions relation: distinct ids (main.py de-duplicates) in any row
\* order; the last id may have no row, its input and output rows are orphans.
TxTables == Perms(TxIds) \cup Perms(TxIds \ {NTx})

\* The Inputs relation.  Only the order of the rows of one transaction is
\* read by the engine, so the rows are listed transaction by transaction.
InputTables ==
    {rows \in SeqsUpTo([tx_id : TxIds, sig_id : SigIds, out_id : OutIds \cup {NoOutput}], MaxIn) :
        Grouped(rows)}

\* The Outputs relation.  Output ids are unique and only compared for
\* equality, so the k-th row has id k and the rows are listed transaction by
\* transaction.
OutputTables ==
    {[k \in DOMAIN rows |->
        [id |-> k, tx_id |-> rows[k].tx_id, pk_id |-> rows[k].pk_id, value |-> rows[k].value]] :
        rows \in {r \in SeqsUpTo([tx_id : TxIds, pk_id : PkIds, value : Values], MaxOut) :
                    Grouped(r)}}

\* ------------------------------------------------------------- is_valid
Reasons == {"not_in_utxo", "neg_dest_pk", "invalid_pk", "neg_output",
            "not_enough_value", "invalid_coinbase"}

\* pk <= 0 and pk != -1
BadDestPk(pk) == pk <= 0 /\ pk # NonStandard

\* The loop without the membership check.
RECURSIVE ScanInputs_nomember(_, _, _, _)
ScanInputs_nomember(inputs, k, u, odf) ==
    IF k > Len(inputs) THEN "ok"
    ELSE LET row == inputs[k]
             spent == OutputsWithId(odf, row.out_id)
             dest_outputs == RowsOf(odf, row.tx_id)
         IN  IF spent = <<>> THEN "IndexError"
             ELSE IF row.sig_id # spent[1].pk_id THEN "invalid_pk"
             ELSE IF \E j \in DOMAIN dest_outputs :
                        dest_outputs[j].pk_id <= 0 /\ dest_outputs[j].pk_id # NonStandard
                  THEN "neg_dest_pk"
             ELSE ScanInputs_nomember(inputs, k + 1, u, odf)

\* The loop with the destination check ahead of the ownership check.
RECURSIVE ScanInputs_destfirst(_, _, _, _)
ScanInputs_destfirst(inputs, k, u, odf) ==
    IF k > Len(inputs) THEN "ok"
    ELSE LET row == inputs[k]
             spent == OutputsWithId(odf, row.out_id)
             dest_outputs == RowsOf(odf, row.tx_id)
         IN  IF row.out_id \notin u THEN "not_in_utxo"
             ELSE IF spent = <<>> THEN "IndexError"
             ELSE IF \E j \in DOMAIN dest_outputs :
                        dest_outputs[j].pk_id <= 0 /\ dest_outputs[j].pk_id # NonStandard
                  THEN "neg_dest_pk"
             ELSE IF row.sig_id # spent[1].pk_id THEN "invalid_pk"
             ELSE ScanInputs_destfirst(inputs, k + 1, u, odf)

\* The loop over inputs.values: the first check that fails on the first row
\* it fails on, "IndexError" when .iloc[0] finds no row, "ok" otherwise.
RECURSIVE ScanInputs(_, _, _, _)
ScanInputs(inputs, k, u, odf) ==
    IF k > Len(inputs) THEN "ok"
    ELSE LET row == inputs[k]
             spent == OutputsWithId(odf, row.out_id)
             dest_outputs == RowsOf(odf, row.tx_id)
         IN  IF row.out_id \notin u THEN "not_in_utxo"
             ELSE IF spent = <<>> THEN "IndexError"
             ELSE IF row.sig_id # spent[1].pk_id THEN "invalid_pk"
             ELSE IF \E j \in DOMAIN dest_outputs : BadDestPk(dest_outputs[j].pk_id)
                  THEN "neg_dest_pk"
             ELSE ScanInputs(inputs, k + 1, u, odf)

\* tot_input of the loop over inputs['out_id']
TotInput(inputs, odf) ==
    SumSeq([k \in DOMAIN inputs |-> OutputsWithId(odf, inputs[k].out_id)[1].value])

\* The duplicate check left out.
SpendsTwice_never(inputs) == FALSE

\* len(spending_outputs_list) != len(set(spending_outputs_list))
SpendsTwice(inputs) ==
    Len(inputs) # Cardinality({inputs[k].out_id : k \in DOMAIN inputs})

\* The comparison turned round.
NotEnoughValue_reversed(tot_input, tot_output) == tot_input > tot_output

\* tot_input < tot_output
NotEnoughValue(tot_input, tot_output) == tot_input < tot_output

\* The duplicate check moved behind the output and value checks.
is_valid_dup_last(tx_id, inputs, outputs, u, odf) ==
    LET scan == ScanInputs(inputs, 1, u, odf) IN
    IF scan # "ok" THEN scan
    ELSE IF \E k \in DOMAIN inputs : OutputsWithId(odf, inputs[k].out_id) = <<>>
         THEN "IndexError"
    ELSE IF \E k \in DOMAIN outputs : outputs[k].value < 0 THEN "neg_output"
    ELSE IF NotEnoughValue(TotInput(inputs, odf), SumSeq(ValuesOf(outputs)))
         THEN "not_enough_value"
    ELSE IF SpendsTwice(inputs) THEN "not_in_utxo"
    ELSE "valid"

\* The verdict of is_valid(tx_id, inputs, outputs) on UTXO set u and Outputs
\* relation odf: "valid", the list the id is appended to, or "IndexError".
is_valid(tx_id, inputs, outputs, u, odf) ==
    LET scan == ScanInputs(inputs, 1, u, odf) IN
    IF scan # "ok" THEN scan
    ELSE IF \E k \in DOMAIN inputs : OutputsWithId(odf, inputs[k].out_id) = <<>>
         THEN "IndexError"
    ELSE IF SpendsTwice(inputs) THEN "not_in_utxo"
    ELSE IF \E k \in DOMAIN outputs : outputs[k].value < 0 THEN "neg_output"
    ELSE IF NotEnoughValue(TotInput(inputs, odf), SumSeq(ValuesOf(outputs)))
         THEN "not_enough_value"
    ELSE "valid"

\* ------------------------------------------------------------ the UTXO set
\* A removal that removes nothing.
RemoveSpent_keeps(u, inputs, k) == [err |-> FALSE, utxo |-> u]

\* for out_id in inputs['out_id']: self.utxo.remove(out_id)
RECURSIVE RemoveSpent(_, _, _)
RemoveSpent(u, inputs, k) ==
    IF k > Len(inputs) THEN [err |-> FALSE, utxo |-> u]
    ELSE IF inputs[k].out_id \notin u THEN [err |-> TRUE, utxo |-> u]
    ELSE RemoveSpent(u \ {inputs[k].out_id}, inputs, k + 1)

\* for id in outputs['id']: self.utxo.add(id)
AddOutputs(u, outputs) == u \cup {outputs[k].id : k \in DOMAIN outputs}

\* ------------------------------------------------------------ the pre-pass
RECURSIVE SortedSeq(_)
SortedSeq(S) ==
    IF S = {} THEN <<>>
    ELSE LET m == CHOOSE x \in S : \A y \in S : x <= y
         IN  <<m>> \o SortedSeq(S \ {m})

\* self.in_df[self.in_df['sig_id'] == 0]['tx_id']
CoinbaseTx(idf) == {idf[k].tx_id : k \in {j \in DOMAIN idf : idf[j].sig_id = 0}}

\* out_df[out_df['tx_id'].isin(coinbase_tx)].groupby('tx_id')['value'].sum()
CoinbaseOutputs(idf, odf) ==
    LET groups == {odf[k].tx_id : k \in DOMAIN odf} \cap CoinbaseTx(idf)
        keys == SortedSeq(groups)
    IN  [k \in DOMAIN keys |->
            [tx_id |-> keys[k],
             value |-> SumSeq(ValuesOf(RowsOf(odf, keys[k])))]]

\* value < MINING_REWARD
BelowReward(value) == value < MINING_REWARD

\* ------------------------------------------------------- drop_transaction
\* A drop whose comparison also takes the rows of lower transaction ids.
DropRows_upto(df, tx_id) == SelectSeq(df, LAMBDA r : r.tx_id > tx_id)

DropRows(df, tx_id) == SelectSeq(df, LAMBDA r : r.tx_id # tx_id)
DropTx(df, tx_id) == SelectSeq(df, LAMBDA id : id # tx_id)

\* A drop that leaves the output rows behind.
drop_transaction_keeps_outputs(tx_id) ==
    /\ tx_df' = SelectSeq(tx_df, LAMBDA id : id # tx_id)
    /\ in_df' = SelectSeq(in_df, LAMBDA r : r.tx_id # tx_id)
    /\ out_df' = out_df

drop_transaction(tx_id) ==
    /\ tx_df' = DropTx(tx_df, tx_id)
    /\ in_df' = DropRows(in_df, tx_id)
    /\ out_df' = DropRows(out_df, tx_id)

KeepRelations == UNCHANGED <<tx_df, in_df, out_df>>

\* self.n_invalid += 1; self.<reason>.append(tx_id)
Record(reason, tx_id) ==
    /\ n_invalid' = n_invalid + 1
    /\ not_in_utxo' = IF reason = "not_in_utxo" THEN Append(not_in_utxo, tx_id) ELSE not_in_utxo
    /\ neg_dest_pk' = IF reason = "neg_dest_pk" THEN Append(neg_dest_pk, tx_id) ELSE neg_dest_pk
    /\ invalid_pk' = IF reason = "invalid_pk" THEN Append(invalid_pk, tx_id) ELSE invalid_pk
    /\ neg_output' = IF reason = "neg_output" THEN Append(neg_output, tx_id) ELSE neg_output
    /\ not_enough_value' = IF reason = "not_enough_value" THEN Append(not_enough_value, tx_id) ELSE not_enough_value
    /\ invalid_coinbase' = IF reason = "invalid_coinbase" THEN Append(invalid_coinbase, tx_id) ELSE invalid_coinbase

KeepReport ==
    UNCHANGED <<n_invalid, not_in_utxo, neg_dest_pk, invalid_pk, neg_output,
                not_enough_value, invalid_coinbase>>

Verdict(tx_id, via, verdict) ==
    [tx_id |-> tx_id, via |-> via, verdict |-> verdict, utxo |-> utxo]

\* ------------------------------------------------------------------- Init
NoFiles == [written |-> FALSE]

Init ==
    /\ \E txs \in TxTables, ins \in InputTables, outs \in OutputTables :
          ledger = [tx |-> txs, ins |-> ins, outs |-> outs]
    /\ tx_df = ledger.tx
    /\ in_df = ledger.ins
    /\ out_df = ledger.outs
    /\ n_invalid = 0
    /\ utxo = {}
    /\ not_in_utxo = <<>>
    /\ neg_dest_pk = <<>>
    /\ invalid_pk = <<>>
    /\ neg_output = <<>>
    /\ not_enough_value = <<>>
    /\ invalid_coinbase = <<>>
    /\ pc = "start"
    /\ coinbase_outputs = <<>>
    /\ cb_i = 1
    /\ tx_iter = <<>>
    /\ tx_i = 1
    /\ files = NoFiles
    /\ trace = <<>>
    /\ run = 1
    /\ first = NoFiles

\* ---------------------------------------------------------- validate_data
\* An iterator that visits the ids in ascending order.
TxIdColumn_sorted(df) == SortedSeq(Range(df))

\* self.tx_df['id'] as the for statement of line 174 takes it: the ids in
\* the row order of the relation, fixed when the loop starts.
TxIdColumn(df) == df

\* Lines 163-164; with no group to visit, the main loop's iterator as well.
Start ==
    /\ pc = "start"
    /\ coinbase_outputs' = CoinbaseOutputs(in_df, out_df)
    /\ cb_i' = 1
    /\ tx_i' = 1
    /\ IF coinbase_outputs' = <<>>
       THEN pc' = "main" /\ tx_iter' = TxIdColumn(tx_df)
       ELSE pc' = "prepass" /\ tx_iter' = <<>>
    /\ KeepRelations
    /\ KeepReport
    /\ UNCHANGED <<utxo, files, ledger, trace, run, first>>

\* One iteration of the loop over coinbase_outputs (lines 166-171); after
\* the last one the main loop takes its iterator over self.tx_df['id'].
PrePass ==
    /\ pc = "prepass"
    /\ cb_i <= Len(coinbase_outputs)
    /\ LET tx_id == coinbase_outputs[cb_i].tx_id
           value == coinbase_outputs[cb_i].value
       IN  IF BelowReward(value)
           THEN /\ Record("invalid_coinbase", tx_id)
                /\ drop_transaction(tx_id)
                /\ trace' = Append(trace, Verdict(tx_id, "prepass", "invalid_coinbase"))
           ELSE /\ KeepReport
                /\ KeepRelations
                /\ trace' = trace
    /\ cb_i' = cb_i + 1
    /\ IF cb_i' > Len(coinbase_outputs)
       THEN pc' = "main" /\ tx_iter' = TxIdColumn(tx_df')
       ELSE pc' = "prepass" /\ tx_iter' = tx_iter
    /\ UNCHANGED <<utxo, coinbase_outputs, tx_i, files, ledger, run, first>>

\* A coinbase test that also wants the input to be the only one.
IsCoinbase_sole(inputs) ==
    inputs[1].sig_id = 0 /\ inputs[1].out_id = NoOutput /\ Len(inputs) = 1

\* inputs.loc[inputs.index[0], 'sig_id'] == 0 and ... 'out_id'] == -1
IsCoinbase(inputs) == inputs[1].sig_id = 0 /\ inputs[1].out_id = NoOutput

\* A branch that hands a transaction without inputs to is_valid.
Branch_lenient(inputs) ==
    IF inputs # <<>> /\ inputs[1].sig_id = 0 /\ inputs[1].out_id = NoOutput
    THEN "coinbase" ELSE "transfer"

\* The branch line 178 takes; inputs.index[0] raises IndexError on no row.
Branch(inputs) ==
    IF inputs = <<>> THEN "IndexError"
    ELSE IF IsCoinbase(inputs) THEN "coinbase"
    ELSE "transfer"

\* One iteration of the loop over self.tx_df['id'] (lines 174-189).
MainStep ==
    /\ pc = "main"
    /\ tx_i <= Len(tx_iter)
    /\ LET tx_id == tx_iter[tx_i]
           inputs == RowsOf(in_df, tx_id)
           outputs == RowsOf(out_df, tx_id)
           branch == Branch(inputs)
           more == IF tx_i + 1 > Len(tx_iter) THEN "write" ELSE "main"
       IN  IF branch = "IndexError"
           THEN /\ pc' = "aborted"
                /\ trace' = Append(trace, Verdict(tx_id, "first_input", "IndexError"))
                /\ KeepRelations /\ KeepReport /\ UNCHANGED utxo
           ELSE IF branch = "coinbase"
           THEN /\ utxo' = AddOutputs(utxo, outputs)
                /\ pc' = more
                /\ trace' = Append(trace, Verdict(tx_id, "coinbase", "valid"))
                /\ KeepRelations /\ KeepReport
           ELSE LET v == is_valid(tx_id, inputs, outputs, utxo, out_df)
                    spent == RemoveSpent(utxo, inputs, 1)
                IN  IF v = "IndexError"
                    THEN \* .iloc[0] found no row
                         /\ pc' = "aborted"
                         /\ trace' = Append(trace, Verdict(tx_id, "is_valid", "IndexError"))
                         /\ KeepRelations /\ KeepReport /\ UNCHANGED utxo
                    ELSE IF v = "valid" /\ spent.err
                    THEN \* utxo.remove raised KeyError
                         /\ pc' = "aborted"
                         /\ utxo' = spent.utxo
                         /\ trace' = Append(trace, Verdict(tx_id, "is_valid", "KeyError"))
                         /\ KeepRelations /\ KeepReport
                    ELSE IF v = "valid"
                    THEN /\ utxo' = AddOutputs(spent.utxo, outputs)
                         /\ pc' = more
                         /\ trace' = Append(trace, Verdict(tx_id, "is_valid", "valid"))
                         /\ KeepRelations /\ KeepReport
                    ELSE /\ Record(v, tx_id)
                         /\ drop_transaction(tx_id)
                         /\ pc' = more
                         /\ trace' = Append(trace, Verdict(tx_id, "is_valid", v))
                         /\ UNCHANGED utxo
    /\ tx_i' = tx_i + 1
    /\ UNCHANGED <<coinbase_outputs, cb_i, tx_iter, files, ledger, run, first>>

\* The report of write_out.
Report ==
    [tot_invalid |-> n_invalid,
     not_in_utxo |-> [tot |-> Len(not_in_utxo), tx_ids |-> not_in_utxo],
     neg_dest_pk |-> [tot |-> Len(neg_dest_pk), tx_ids |-> neg_dest_pk],
     invalid_pk |-> [tot |-> Len(invalid_pk), tx_ids |-> invalid_pk],
     neg_output |-> [tot |-> Len(neg_output), tx_ids |-> neg_output],
     not_enough_value |-> [tot |-> Len(not_enough_value), tx_ids |-> not_enough_value],
     invalid_coinbase |-> [tot |-> Len(invalid_coinbase), tx_ids |-> invalid_coinbase]]

\* write_out, called once the main loop is over (line 192).
WriteOut ==
    /\ pc = "main" \/ pc = "write"
    /\ tx_i > Len(tx_iter)
    /\ files' = [written |-> TRUE, tx |-> tx_df, ins |-> in_df, outs |-> out_df,
                 report |-> Report, utxo |-> utxo]
    /\ pc' = "done"
    /\ KeepRelations
    /\ KeepReport
    /\ UNCHANGED <<utxo, coinbase_outputs, cb_i, tx_iter, tx_i, ledger, trace,
                   run, first>>

Next == Start \/ PrePass \/ MainStep \/ WriteOut

Spec == Init /\ [][Next]_vars

\* A second DataValidator over its own copy of the same relations, built
\* once the first validate_data has returned.  utxo and the six lists are
\* class attributes that validate_data mutates in place: the new instance
\* finds them as the first left them.  n_invalid is rebound by += on the
\* instance, so the new instance reads the class's 0.
NewInstance ==
    /\ pc = "done"
    /\ run = 1
    /\ run' = 2
    /\ first' = files
    /\ tx_df' = ledger.tx
    /\ in_df' = ledger.ins
    /\ out_df' = ledger.outs
    /\ n_invalid' = 0
    /\ pc' = "start"
    /\ coinbase_outputs' = <<>>
    /\ cb_i' = 1
    /\ tx_iter' = <<>>
    /\ tx_i' = 1
    /\ trace' = <<>>
    /\ UNCHANGED <<utxo, not_in_utxo, neg_dest_pk, invalid_pk, neg_output,
                   not_enough_value, invalid_coinbase, files, ledger>>

NextRerun == Next \/ NewInstance

SpecRerun == Init /\ [][NextRerun]_vars

\* A longer ledger: one more transaction id than TxIds has, every output
\* worth the mining reward.  It has room for an output, a transfer that
\* spends it and a third transaction that names it again.  As in TxTables
\* the last id may have no Transactions row.
ChainTxIds == 1..(NTx + 1)

ChainTxTables == Perms(ChainTxIds) \cup Perms(ChainTxIds \ {NTx + 1})

ChainInputTables ==
    {rows \in SeqsUpTo([tx_id : ChainTxIds, sig_id : SigIds, out_id : OutIds \cup {NoOutput}], MaxIn) :
        Grouped(rows)}

ChainOutputTables ==
    {[k \in DOMAIN rows |->
        [id |-> k, tx_id |-> rows[k].tx_id, pk_id |-> rows[k].pk_id, value |-> rows[k].value]] :
        rows \in {r \in SeqsUpTo([tx_id : ChainTxIds, pk_id : PkIds, value : {MINING_REWARD}], MaxOut) :
                    Grouped(r)}}

ChainInit ==
    /\ \E txs \in ChainTxTables, ins \in ChainInputTables, outs \in ChainOutputTables :
          ledger = [tx |-> txs, ins |-> ins, outs |-> outs]
    /\ tx_df = ledger.tx
    /\ in_df = ledger.ins
    /\ out_df = ledger.outs
    /\ n_invalid = 0
    /\ utxo = {}
    /\ not_in_utxo = <<>>
    /\ neg_dest_pk = <<>>
    /\ invalid_pk = <<>>
    /\ neg_output = <<>>
    /\ not_enough_value = <<>>
    /\ invalid_coinbase = <<>>
    /\ pc = "start"
    /\ coinbase_outputs = <<>>
    /\ cb_i = 1
    /\ tx_iter = <<>>
    /\ tx_i = 1
    /\ files = NoFiles
    /\ trace = <<>>
    /\ run = 1
    /\ first = NoFiles

SpecChain == ChainInit /\ [][Next]_vars

\* ================================================================ claims
\* What the run was given and what it decided, read from ledger and trace.
GivenInputs(tx_id) == RowsOf(ledger.ins, tx_id)
GivenOutputs(tx_id) == RowsOf(ledger.outs, tx_id)
SpentIds(tx_id) == {r.out_id : r \in Range(GivenInputs(tx_id))}
ProducedIds(tx_id) == {r.id : r \in Range(GivenOutputs(tx_id))}
ProducedValue(tx_id) == SumSeq(ValuesOf(GivenOutputs(tx_id)))
UtxoAfter(p) == IF p < Len(trace) THEN trace[p + 1].utxo ELSE utxo
Accepted(p) == trace[p].verdict = "valid"
AcceptedTransfer(p) == trace[p].via = "is_valid" /\ trace[p].verdict = "valid"
AcceptedCoinbase(p) == trace[p].via = "coinbase" /\ trace[p].verdict = "valid"

\* C1 (as claimed): at every point of the pass an output id is in the UTXO
\* set iff its transaction has been accepted and no input of any transaction
\* accepted after it, coinbase or transfer, references it.
C1_UtxoIffUnreferenced ==
    utxo = {o.id : o \in {r \in Range(ledger.outs) :
        \E p \in DOMAIN trace :
            /\ Accepted(p)
            /\ trace[p].tx_id = r.tx_id
            /\ \A q \in DOMAIN trace :
                (q > p /\ Accepted(q)) => r.id \notin SpentIds(trace[q].tx_id)}}

\* C1 (amended): at every point of the pass an output id is in the UTXO set
\* iff its transaction has been accepted and no input of a transfer
\* transaction accepted after it references it; the inputs of a transaction
\* taken as coinbase consume nothing.
C1_UtxoIffUnspent ==
    utxo = {o.id : o \in {r \in Range(ledger.outs) :
        \E p \in DOMAIN trace :
            /\ Accepted(p)
            /\ trace[p].tx_id = r.tx_id
            /\ \A q \in DOMAIN trace :
                (q > p /\ AcceptedTransfer(q)) => r.id \notin SpentIds(trace[q].tx_id)}}

\* C1 witness: the pass is over, a transfer was accepted and spent an
\* output, and an output is left unspent.
C1_Witness ==
    /\ pc = "done"
    /\ utxo # {}
    /\ \E p \in DOMAIN trace : AcceptedTransfer(p) /\ SpentIds(trace[p].tx_id) # {}

C3_CoinbaseFloor ==
    \A p \in DOMAIN trace :
        AcceptedCoinbase(p) => ProducedValue(trace[p].tx_id) >= MINING_REWARD

\* C4 (as claimed): a second instance over a copy of the same relations, run
\* after the first in the same process, stores the same relations, the same
\* report and the same UTXO listing as the first.
C4_Determinism == (run = 2 /\ pc = "done") => files = first

\* The six rules of the classifier, each stated on its own for transaction t
\* against UTXO set u.
GivenOutput(id) == CHOOSE r \in Range(ledger.outs) : r.id = id
Exists(id) == \E r \in Range(ledger.outs) : r.id = id
NotMember(r, u) == r.out_id \notin u
NotOwner(r) == Exists(r.out_id) /\ r.sig_id # GivenOutput(r.out_id).pk_id
BadDestination(t) == \E o \in Range(GivenOutputs(t)) : o.pk_id <= 0 /\ o.pk_id # -1
Rule1Broken(t, u) == \E r \in Range(GivenInputs(t)) : NotMember(r, u)
Rule2Broken(t) == \E r \in Range(GivenInputs(t)) : NotOwner(r)
Rule3Broken(t) == GivenInputs(t) # <<>> /\ BadDestination(t)
Rule4Broken(t) == \E a, b \in DOMAIN GivenInputs(t) :
                    a # b /\ GivenInputs(t)[a].out_id = GivenInputs(t)[b].out_id
Rule5Broken(t) == \E o \in Range(GivenOutputs(t)) : o.value < 0
SpentValue(t) ==
    SumSeq([k \in DOMAIN GivenInputs(t) |->
        IF Exists(GivenInputs(t)[k].out_id)
        THEN GivenOutput(GivenInputs(t)[k].out_id).value ELSE 0])
Rule6Broken(t) == SpentValue(t) < ProducedValue(t)

LaterRules(t) ==
    IF Rule4Broken(t) THEN "not_in_utxo"
    ELSE IF Rule5Broken(t) THEN "neg_output"
    ELSE IF Rule6Broken(t) THEN "not_enough_value"
    ELSE "valid"

LowestRule(t, u) ==
    IF Rule1Broken(t, u) THEN "not_in_utxo"
    ELSE IF Rule2Broken(t) THEN "invalid_pk"
    ELSE IF Rule3Broken(t) THEN "neg_dest_pk"
    ELSE LaterRules(t)

\* The first input, in record order, that breaks one of rules 1 to 3, and
\* the lowest rule that input breaks.
InputFails(t, r, u) == NotMember(r, u) \/ NotOwner(r) \/ BadDestination(t)
FirstFailingInput(t, u) ==
    IF \E k \in DOMAIN GivenInputs(t) : InputFails(t, GivenInputs(t)[k], u)
    THEN LET k == CHOOSE j \in DOMAIN GivenInputs(t) :
                    /\ InputFails(t, GivenInputs(t)[j], u)
                    /\ \A i \in 1..(j - 1) : ~InputFails(t, GivenInputs(t)[i], u)
             r == GivenInputs(t)[k]
         IN  IF NotMember(r, u) THEN "not_in_utxo"
             ELSE IF NotOwner(r) THEN "invalid_pk"
             ELSE "neg_dest_pk"
    ELSE LaterRules(t)

RejectedTransfer(p) == trace[p].via = "is_valid" /\ trace[p].verdict \in Reasons

\* C5 (as claimed): the reason recorded for a rejected transfer is that of
\* the lowest-numbered rule, 1 to 6, that the transaction breaks against the
\* UTXO set it is processed on.
C5_LowestRule ==
    \A p \in DOMAIN trace :
        RejectedTransfer(p) => trace[p].verdict = LowestRule(trace[p].tx_id, trace[p].utxo)

\* C5 (amended): the reason recorded for a rejected transfer is that of the
\* lowest of rules 1 to 3 broken by the first input, in record order, that
\* breaks one of them; when no input breaks rules 1 to 3, that of the lowest
\* of rules 4 to 6 the transaction breaks.
C5_FirstFailingCheck ==
    \A p \in DOMAIN trace :
        RejectedTransfer(p) =>
            trace[p].verdict = FirstFailingInput(trace[p].tx_id, trace[p].utxo)

\* C5 witness: a rejected transfer whose first input breaks only a rule
\* higher than one its second input breaks.
C5_Witness ==
    \E p \in DOMAIN trace :
        /\ RejectedTransfer(p)
        /\ Len(GivenInputs(trace[p].tx_id)) = 2
        /\ ~NotMember(GivenInputs(trace[p].tx_id)[1], trace[p].utxo)
        /\ NotOwner(GivenInputs(trace[p].tx_id)[1])
        /\ NotMember(GivenInputs(trace[p].tx_id)[2], trace[p].utxo)
        /\ trace[p].verdict = "invalid_pk"

\* The ids of the six category lists, in one sequence.
AllListed ==
    not_in_utxo \o neg_dest_pk \o invalid_pk \o neg_output \o not_enough_value
        \o invalid_coinbase

\* C6: after validate_data no id is listed twice over the six lists, a
\* transaction is listed iff it has left the Transactions relation, no row
\* of the three relations carries a listed id, and no transaction was given
\* a verdict twice.
C6_RejectionExclusivity ==
    pc = "done" =>
        /\ \A a, b \in DOMAIN AllListed : a # b => AllListed[a] # AllListed[b]
        /\ \A t \in Range(ledger.tx) : t \in Range(AllListed) <=> t \notin Range(tx_df)
        /\ \A t \in Range(AllListed) :
            /\ t \notin Range(tx_df)
            /\ RowsOf(in_df, t) = <<>>
            /\ RowsOf(out_df, t) = <<>>
        /\ \A p, q \in DOMAIN trace : p # q => trace[p].tx_id # trace[q].tx_id

\* C6 witness: the pass is over, one transaction was rejected by the
\* pre-pass and another, which had output rows, by is_valid.
C6_Witness ==
    /\ pc = "done"
    /\ Len(invalid_coinbase) = 1
    /\ \E p \in DOMAIN trace : RejectedTransfer(p) /\ GivenOutputs(trace[p].tx_id) # <<>>

\* C7: every transfer is_valid accepts spends outputs worth at least what
\* it produces, and produces no output of negative value.
C7_ValueConservation ==
    \A p \in DOMAIN trace :
        AcceptedTransfer(p) =>
            /\ SpentValue(trace[p].tx_id) >= ProducedValue(trace[p].tx_id)
            /\ \A o \in Range(GivenOutputs(trace[p].tx_id)) : o.value >= 0

\* C7 witness: an accepted transfer that produces an output of positive value.
C7_Witness ==
    \E p \in DOMAIN trace :
        AcceptedTransfer(p) /\ ProducedValue(trace[p].tx_id) > 0

\* C8 (as claimed): every transaction whose first input has sig_id 0 and
\* that the pre-pass did not reject is taken as coinbase by the main pass,
\* without is_valid, and all its output ids are put in the UTXO set.
C8_BypassOnSignerZero ==
    \A p \in DOMAIN trace :
        (/\ trace[p].via # "prepass"
         /\ GivenInputs(trace[p].tx_id) # <<>>
         /\ GivenInputs(trace[p].tx_id)[1].sig_id = 0) =>
            /\ AcceptedCoinbase(p)
            /\ ProducedIds(trace[p].tx_id) \subseteq UtxoAfter(p)

\* C8 (amended): every transaction whose first input has sig_id 0 and
\* out_id -1 and that the pre-pass did not reject is taken as coinbase by the
\* main pass, without is_valid, and all its output ids are put in the UTXO
\* set.
C8_BypassOnCoinbaseInput ==
    \A p \in DOMAIN trace :
        (/\ trace[p].via # "prepass"
         /\ GivenInputs(trace[p].tx_id) # <<>>
         /\ GivenInputs(trace[p].tx_id)[1].sig_id = 0
         /\ GivenInputs(trace[p].tx_id)[1].out_id = -1) =>
            /\ AcceptedCoinbase(p)
            /\ ProducedIds(trace[p].tx_id) \subseteq UtxoAfter(p)

\* C8 witness: a transaction with two inputs, the first a coinbase input,
\* and with output rows, has been through the main pass.
C8_Witness ==
    \E p \in DOMAIN trace :
        /\ trace[p].via # "prepass"
        /\ Len(GivenInputs(trace[p].tx_id)) = 2
        /\ GivenInputs(trace[p].tx_id)[1].sig_id = 0
        /\ GivenInputs(trace[p].tx_id)[1].out_id = -1
        /\ ProducedIds(trace[p].tx_id) # {}

\* Every transaction of the ledger has an input row (ids are unique in
\* every ledger).
EveryTxHasInput == \A t \in Range(ledger.tx) : GivenInputs(t) # <<>>

\* C9: on a ledger where every transaction has an input row the run never
\* aborts, no lookup fails, no transaction gets two verdicts, a step is
\* enabled until write_out has run, and once it has every transaction has
\* exactly one verdict.
C9_Completion ==
    EveryTxHasInput =>
        /\ pc # "aborted"
        /\ \A p \in DOMAIN trace : trace[p].verdict \in Reasons \cup {"valid"}
        /\ \A p, q \in DOMAIN trace : p # q => trace[p].tx_id # trace[q].tx_id
        /\ pc # "done" => ENABLED Next
        /\ pc = "done" =>
            /\ files.written
            /\ \A t \in Range(ledger.tx) :
                Cardinality({p \in DOMAIN trace : trace[p].tx_id = t}) = 1

\* C9 witness: such a run is over, with one transfer rejected and one
\* transaction accepted.
C9_Witness ==
    /\ EveryTxHasInput
    /\ pc = "done"
    /\ \E p \in DOMAIN trace : RejectedTransfer(p)
    /\ \E p \in DOMAIN trace : Accepted(p)

\* C10: once the main pass has reached a transaction without input rows the
\* run has aborted there: no later transaction is visited, nothing is
\* written, and the transaction is neither accepted nor listed.
C10_ZeroInputsAbort ==
    \A k \in 1..(tx_i - 1) :
        (k <= Len(tx_iter) /\ GivenInputs(tx_iter[k]) = <<>>) =>
            /\ pc = "aborted"
            /\ k = tx_i - 1
            /\ files = NoFiles
            /\ tx_iter[k] \notin Range(AllListed)
            /\ \A p \in DOMAIN trace : trace[p].tx_id = tx_iter[k] => ~Accepted(p)

\* C10 witness: the run aborted on its second transaction, after rejecting
\* the first.
C10_Witness ==
    /\ pc = "aborted"
    /\ tx_i = 3
    /\ GivenInputs(tx_iter[2]) = <<>>
    /\ AllListed # <<>>

\* C11: a transaction is listed in invalid_coinbase only if its first input
\* has signer 0 and its outputs sum to less than the mining reward; a
\* transaction whose first input has another signer is never listed there,
\* even when a later input of it has signer 0.
C11_PrePassScope ==
    \A k \in DOMAIN invalid_coinbase :
        /\ GivenInputs(invalid_coinbase[k]) # <<>>
        /\ GivenInputs(invalid_coinbase[k])[1].sig_id = 0
        /\ ProducedValue(invalid_coinbase[k]) < MINING_REWARD

\* The six category lists, in the order of the report.
SixLists ==
    <<not_in_utxo, neg_dest_pk, invalid_pk, neg_output, not_enough_value,
      invalid_coinbase>>

\* The step rejects a transaction: the trace grows by a verdict that is a
\* rejection reason.
Rejects ==
    /\ Len(trace') = Len(trace) + 1
    /\ trace'[Len(trace')].verdict \in Reasons

\* C12: a step that rejects a transaction, in the pre-pass or in the main
\* pass, leaves the UTXO set unchanged, leaves the rows of every other
\* transaction in the three relations unchanged, and makes exactly one of
\* the six category lists grow, by exactly that transaction's id.
C12_RejectionFrame ==
    [][Rejects =>
        LET t == trace'[Len(trace')].tx_id
        IN  /\ utxo' = utxo
            /\ \A o \in TxIds \ {t} :
                  /\ RowsOf(in_df', o) = RowsOf(in_df, o)
                  /\ RowsOf(out_df', o) = RowsOf(out_df, o)
                  /\ (o \in Range(tx_df')) = (o \in Range(tx_df))
            /\ DropTx(tx_df', t) = DropTx(tx_df, t)
            /\ \E i \in DOMAIN SixLists :
                  /\ SixLists'[i] = Append(SixLists[i], t)
                  /\ \A j \in DOMAIN SixLists \ {i} : SixLists'[j] = SixLists[j]
    ]_vars

\* C12 witness: the main pass has rejected a transaction while the UTXO set
\* was not empty and the rows of another transaction were in the relations.
C12_Witness ==
    \E p \in DOMAIN trace :
        /\ RejectedTransfer(p)
        /\ trace[p].utxo # {}
        /\ utxo = trace[p].utxo
        /\ \E o \in Range(tx_df) :
              o # trace[p].tx_id /\ RowsOf(in_df, o) # <<>> /\ RowsOf(out_df, o) # <<>>

\* C13: no accepted transfer has two inputs with the same out_id, and a
\* transfer with such a pair whose inputs pass the membership, ownership and
\* destination checks is rejected as not_in_utxo, whatever its output values
\* and its value balance are.
C13_InternalDoubleSpend ==
    \A p \in DOMAIN trace :
        (trace[p].via = "is_valid" /\ Rule4Broken(trace[p].tx_id)) =>
            /\ ~AcceptedTransfer(p)
            /\ (/\ ~Rule1Broken(trace[p].tx_id, trace[p].utxo)
                /\ ~Rule2Broken(trace[p].tx_id)
                /\ ~Rule3Broken(trace[p].tx_id)) =>
                    /\ trace[p].verdict = "not_in_utxo"
                    /\ trace[p].tx_id \in Range(not_in_utxo)
                    /\ trace[p].tx_id \notin Range(neg_output)
                    /\ trace[p].tx_id \notin Range(not_enough_value)

\* C13 witness: a transfer that names one unspent output of its signer in
\* two inputs and has a negative output value was rejected as not_in_utxo.
C13_Witness ==
    \E p \in DOMAIN trace :
        /\ trace[p].via = "is_valid"
        /\ Rule4Broken(trace[p].tx_id)
        /\ ~Rule1Broken(trace[p].tx_id, trace[p].utxo)
        /\ ~Rule2Broken(trace[p].tx_id)
        /\ ~Rule3Broken(trace[p].tx_id)
        /\ Rule5Broken(trace[p].tx_id)
        /\ trace[p].verdict = "not_in_utxo"

\* The verdicts of the main pass, in the order they were reached, and the
\* transactions of the relation handed to the run that the pre-pass left.
MainVisits == SelectSeq(trace, LAMBDA e : e.via # "prepass")
PrePassDropped == {e.tx_id : e \in {x \in Range(trace) : x.via = "prepass"}}
Survivors == SelectSeq(ledger.tx, LAMBDA t : t \notin PrePassDropped)
Ascending(ids) == \A a, b \in DOMAIN ids : a < b => ids[a] < ids[b]

\* The UTXO set that the first k main-pass verdicts leave, replayed from the
\* relations handed to the run.
RECURSIVE UtxoLeftBy(_)
UtxoLeftBy(k) ==
    IF k = 0 THEN {}
    ELSE LET e == MainVisits[k]
             before == UtxoLeftBy(k - 1)
         IN  IF e.verdict # "valid" THEN before
             ELSE IF e.via = "coinbase" THEN before \cup ProducedIds(e.tx_id)
             ELSE (before \ SpentIds(e.tx_id)) \cup ProducedIds(e.tx_id)

\* C14 (as claimed): the main pass visits the transactions that survive the
\* pre-pass in strictly ascending id order, whatever the row order of the
\* Transactions relation, and the UTXO set a transaction is classified on
\* holds only outputs of surviving transactions with a lower id.
C14_AscendingOrder ==
    /\ Ascending([k \in DOMAIN MainVisits |-> MainVisits[k].tx_id])
    /\ \A k \in DOMAIN MainVisits :
          \A id \in MainVisits[k].utxo :
              \E t \in Range(Survivors) :
                  t < MainVisits[k].tx_id /\ id \in ProducedIds(t)

\* C14 (amended): the main pass visits the transactions that survive the
\* pre-pass in the row order of the Transactions relation, all of them once
\* it ends, and the UTXO set a transaction is classified on is the one left
\* by exactly the surviving transactions before it in that order; the visits
\* are in ascending id order when the relation is.
C14_RowOrder ==
    /\ Len(MainVisits) <= Len(Survivors)
    /\ \A k \in DOMAIN MainVisits :
          /\ MainVisits[k].tx_id = Survivors[k]
          /\ MainVisits[k].utxo = UtxoLeftBy(k - 1)
    /\ pc \in {"write", "done"} => Len(MainVisits) = Len(Survivors)
    /\ Ascending(ledger.tx) =>
          Ascending([k \in DOMAIN MainVisits |-> MainVisits[k].tx_id])

\* C14 witness: the relation lists transaction 2 before transaction 1; the
\* pass is over, it rejected 2 for an output that 1, accepted after it,
\* produces.
C14_Witness ==
    /\ pc = "done"
    /\ ledger.tx = <<2, 1>>
    /\ Len(MainVisits) = 2
    /\ MainVisits[1].tx_id = 2
    /\ MainVisits[1].verdict = "not_in_utxo"
    /\ MainVisits[2].verdict = "valid"
    /\ SpentIds(2) \cap ProducedIds(1) # {}

\* C15 (as claimed): at every point of a run of any instance, a second one
\* in the same process included, n_invalid equals the total length of the
\* six category lists, which equals the number of transactions the run has
\* removed from the Transactions relation; the report that write_out stores
\* agrees with itself in the same way.
C15_ReportConsistency ==
    /\ n_invalid = Len(AllListed)
    /\ Len(AllListed) = Len(ledger.tx) - Len(tx_df)
    /\ files.written =>
          /\ files.report.tot_invalid =
                files.report.not_in_utxo.tot + files.report.neg_dest_pk.tot
                + files.report.invalid_pk.tot + files.report.neg_output.tot
                + files.report.not_enough_value.tot + files.report.invalid_coinbase.tot
          /\ pc = "done" => files.report.tot_invalid = Len(ledger.tx) - Len(files.tx)

\* The accepted transactions, by kind, whose input rows name output id.
Referencing(id) ==
    {p \in DOMAIN trace : Accepted(p) /\ id \in SpentIds(trace[p].tx_id)}
TransfersReferencing(id) ==
    {p \in DOMAIN trace : AcceptedTransfer(p) /\ id \in SpentIds(trace[p].tx_id)}

\* Every input row that the cleaned Inputs relation keeps for an accepted
\* transfer names an output row of the cleaned Outputs relation, and that
\* row belongs to a transaction accepted earlier in the pass.
TransferInputsClosed ==
    \A p \in DOMAIN trace :
        AcceptedTransfer(p) =>
            /\ RowsOf(in_df, trace[p].tx_id) = GivenInputs(trace[p].tx_id)
            /\ \A r \in Range(RowsOf(in_df, trace[p].tx_id)) :
                  \E o \in Range(out_df) :
                      /\ o.id = r.out_id
                      /\ \E q \in 1..(p - 1) : Accepted(q) /\ trace[q].tx_id = o.tx_id

\* C16 (as claimed): after validate_data the input rows of accepted
\* transfers are closed in that sense, and no output id of the cleaned
\* Outputs relation is named by input rows of two different accepted
\* transactions.
C16_ReferentialClosure ==
    pc = "done" =>
        /\ TransferInputsClosed
        /\ \A o \in Range(out_df) : Cardinality(Referencing(o.id)) <= 1

\* C16 (amended): after validate_data the input rows of accepted transfers
\* are closed in that sense, and no output id of the cleaned Outputs
\* relation is named by input rows of two different accepted transfers;
\* the input rows of a transaction accepted as coinbase are not looked at
\* and may name any id.
C16_TransferClosure ==
    pc = "done" =>
        /\ TransferInputsClosed
        /\ \A o \in Range(out_df) : Cardinality(TransfersReferencing(o.id)) <= 1

\* C16 witness: the pass is over; it accepted a transfer that spends an
\* output and rejected a later transaction that names the same output.
C16_Witness ==
    /\ pc = "done"
    /\ \E p, q \in DOMAIN trace :
          /\ p < q
          /\ AcceptedTransfer(p)
          /\ RejectedTransfer(q)
          /\ trace[q].verdict = "not_in_utxo"
          /\ \E o \in Range(out_df) :
                o.id \in SpentIds(trace[p].tx_id) \cap SpentIds(trace[q].tx_id)

====
